---- MODULE Spec2Model ----
(***************************************************************************)
(* DataQueue (Source/DataQueue.cpp): a per-channel circular sample buffer  *)
(* with a per-block timestamp table, between one writer (writeChannel),    *)
(* one reader (startRead/stopRead) and a control context (setChannels,     *)
(* resize).                                                                *)
(*                                                                         *)
(* A sample is represented by its own timestamp: the sample at offset k of *)
(* a writeChannel call with timestamp T is the number T + k.  The writer   *)
(* produces a gap-free stream per channel, so samples are distinct.        *)
(***************************************************************************)
EXTENDS Integers, Sequences, FiniteSets, TLC

VARIABLES
    m_numChans,            \* int m_numChans
    m_numBlocks,           \* int m_numBlocks
    m_maxSize,             \* int m_maxSize
    m_readInProgress,      \* bool m_readInProgress
    m_fifos,               \* OwnedArray<AbstractFifo>: chan -> [validStart, validEnd, bufferSize]
    m_readSamples,         \* Array<int>: chan -> recorded consumed length
    m_timestamps,          \* OwnedArray<Array<int64>>: chan -> sequence, slot i is element i+1
    m_lastReadTimestamps,  \* Array<int64>
    m_buffer,              \* AudioSampleBuffer: chan -> [0..maxSize-1 -> sample]
    indexes,               \* the reader's Array<CircularBufferIndexes>
    timestamps,            \* the reader's Array<int64>
    nextTs,                \* writer: timestamp of the next sample of each channel's stream
    pending,               \* history: samples accepted by writeChannel and not yet released
    hadSession,            \* history: channel had a read session since the last reconfiguration
    wroteDuring,           \* history: channel was written since the last successful startRead
    lastOp,                \* history: the operation (or step) that produced this state
    reconfigs,             \* control context: number of setChannels/resize calls made
    cpc, cargs, ci,        \* control context: position, call, loop index
    rpc, rargs, rchan,     \* reader context: position, call, loop index
    rn,                    \* reader context: the local samplesToRead of startRead
    wpc, wargs, ww,        \* writer context: position, call, the windows of prepareToWrite
    snap,                  \* history: chan -> the samples copied when startRead read the ready count
    delivered              \* history: chan -> the samples returned in the windows of sessions

qvars == <<m_numChans, m_numBlocks, m_maxSize, m_readInProgress, m_fifos,
           m_readSamples, m_timestamps, m_lastReadTimestamps, m_buffer>>
outvars == <<indexes, timestamps>>
histvars == <<nextTs, pending, hadSession, wroteDuring, lastOp>>
ctlvars == <<reconfigs>>
rwvars == <<rn, wpc, wargs, ww, snap>>
pcvars == <<cpc, cargs, ci, rpc, rargs, rchan, rwvars>>
livevars == <<delivered>>
vars == <<qvars, outvars, histvars, ctlvars, pcvars, livevars>>

----------------------------------------------------------------------------
(* Bounds *)

BlockSize == 2       \* constructor argument blockSize
InitBlocks == 3      \* constructor argument nBlocks
MaxBlocks == 2       \* resize(nBlocks) takes nBlocks in 1..MaxBlocks
MaxChans == 1        \* setChannels(nChans) takes nChans in 0..MaxChans
MaxSamples == 5      \* writeChannel takes nSamples in 1..MaxSamples
MaxCap == 1          \* startRead takes nMax in 0..MaxCap
StartTs == 10        \* timestamp of the first sample of every stream
MaxReconfig == 2     \* the control context makes at most MaxReconfig calls
StreamLen == 5       \* the writer stops after StreamLen samples over all channels

NoSample == -1       \* content of a sample-store position never written
NoWindow == [index1 |-> 0, size1 |-> 0, index2 |-> 0, size2 |-> 0]
\* history record of an operation: its name and arguments, its result, whether a
\* session was open when it began, the number of samples it stored (writeChannel),
\* and whether it wrote to an empty channel at a block-aligned write position
\* no writeChannel call in progress
NoWrite == [chan |-> 0, n |-> 0, ts |-> 0]

NoOp == [op |-> "init", chan |-> -1, n |-> 0, ts |-> 0, ret |-> TRUE,
         open |-> FALSE, stored |-> 0, fresh |-> FALSE]

Min(a, b) == IF a < b THEN a ELSE b

----------------------------------------------------------------------------
(* juce::AbstractFifo, the ring index allocator used through m_fifos *)

newFifo(capacity) == [validStart |-> 0, validEnd |-> 0, bufferSize |-> capacity]

getNumReady(f) ==
    IF f.validEnd >= f.validStart
    THEN f.validEnd - f.validStart
    ELSE f.bufferSize - (f.validStart - f.validEnd)

getFreeSpace(f) == f.bufferSize - getNumReady(f) - 1

prepareToWrite(f, numToWrite) ==
    LET vs == f.validStart
        ve == f.validEnd
        freeSpace == IF ve >= vs THEN f.bufferSize - (ve - vs) ELSE vs - ve
        n == Min(numToWrite, freeSpace - 1)
        b1 == Min(f.bufferSize - ve, n)
    IN  IF n <= 0
        THEN NoWindow
        ELSE [index1 |-> ve, size1 |-> b1, index2 |-> 0,
              size2 |-> IF n - b1 <= 0 THEN 0 ELSE Min(n - b1, vs)]

finishedWrite(f, numWritten) ==
    LET newEnd == f.validEnd + numWritten
    IN  [f EXCEPT !.validEnd = IF newEnd >= f.bufferSize
                               THEN newEnd - f.bufferSize ELSE newEnd]

prepareToRead(f, numWanted) ==
    LET vs == f.validStart
        ve == f.validEnd
        n == Min(numWanted, getNumReady(f))
        b1 == Min(f.bufferSize - vs, n)
    IN  IF n <= 0
        THEN NoWindow
        ELSE [index1 |-> vs, size1 |-> b1, index2 |-> 0,
              size2 |-> IF n - b1 <= 0 THEN 0 ELSE Min(n - b1, ve)]

finishedRead(f, numRead) ==
    LET newStart == f.validStart + numRead
    IN  [f EXCEPT !.validStart = IF newStart >= f.bufferSize
                                 THEN newStart - f.bufferSize ELSE newStart]

\* setTotalSize(size) followed by reset()
setTotalSizeAndReset(f, size) == newFifo(size)

----------------------------------------------------------------------------
(* juce::Array<int64> as used for the timestamp tables *)

\* Array::set: replaces an element in range, appends when the index is past the end
ArraySet(arr, idx, v) ==
    IF idx < 0 THEN arr
    ELSE IF idx < Len(arr) THEN [arr EXCEPT ![idx + 1] = v]
    ELSE Append(arr, v)

\* Array::resize: keeps the leading elements, pads with int64() = 0
ArrayResize(arr, n) ==
    [k \in 1..n |-> IF k <= Len(arr) THEN arr[k] ELSE 0]

\* Array::getUnchecked
getUnchecked(arr, idx) == arr[idx + 1]

----------------------------------------------------------------------------
(* juce::AudioSampleBuffer *)

emptyStore(size) == [p \in 0..(size - 1) |-> NoSample]

\* copyFrom(channel, destStart, source, channel, sourceStart, num) on one channel;
\* source is a sequence, source sample k is element k+1
copyFrom(dest, destStart, source, sourceStart, num) ==
    [p \in DOMAIN dest |->
        IF p >= destStart /\ p < destStart + num
        THEN source[(p - destStart) + sourceStart + 1]
        ELSE dest[p]]

\* setSize(nChans, size): nothing happens when the dimensions are the same;
\* otherwise the store is reallocated and no position holds a written sample
setSize(buf, oldChans, oldSize, nChans, size) ==
    IF nChans = oldChans /\ size = oldSize
    THEN buf
    ELSE [c \in 0..(nChans - 1) |-> emptyStore(size)]

----------------------------------------------------------------------------
(* DataQueue::fillTimestamps *)

\* a mutation of fillLoop: the test that the block start is in range is missing
RECURSIVE fillLoopUnchecked(_, _, _, _, _, _, _)
fillLoopUnchecked(arr, i, size, index, blockStartPos, startTimestamp, blockIdx) ==
    IF i < size
    THEN fillLoopUnchecked(ArraySet(arr, blockIdx, startTimestamp + (i * BlockSize)),
                           i + BlockSize, size, index, blockStartPos, startTimestamp,
                           blockIdx)
    ELSE arr

RECURSIVE fillLoop(_, _, _, _, _, _, _)
fillLoop(arr, i, size, index, blockStartPos, startTimestamp, blockIdx) ==
    IF i < size
    THEN fillLoop(IF (blockStartPos + i) < (index + size)
                  THEN ArraySet(arr, blockIdx, startTimestamp + (i * BlockSize))
                  ELSE arr,
                  i + BlockSize, size, index, blockStartPos, startTimestamp, blockIdx)
    ELSE arr

fillTimestamps(arr, index, size, timestamp) ==
    LET blockMod == index % BlockSize
        blockIdx == index \div BlockSize
    IN  IF blockMod = 0
        THEN fillLoop(arr, 0, size, index, index, timestamp, blockIdx)
        ELSE fillLoop(arr, 0, size, index, index + (BlockSize - blockMod),
                      timestamp + (BlockSize - blockMod), blockIdx + 1)

----------------------------------------------------------------------------
(* DataQueue::writeChannel, the work on one channel *)

\* the caller's buffer: nSamples samples, the first one stamped timestamp
sourceBuffer(nSamples, timestamp) == [k \in 1..nSamples |-> timestamp + (k - 1)]

\* a mutation of writeStore: the second copy reads the source from offset 0
writeStoreNoOffset(buf, w, source) ==
    LET buf1 == copyFrom(buf, w.index1, source, 0, w.size1)
    IN  IF w.size2 > 0
        THEN copyFrom(buf1, w.index2, source, 0, w.size2)
        ELSE buf1

\* a mutation of writeStore: the first copy takes the requested length
writeStoreRequested(buf, w, source) ==
    LET buf1 == copyFrom(buf, w.index1, source, 0, Len(source))
    IN  IF w.size2 > 0
        THEN copyFrom(buf1, w.index2, source, w.size1, w.size2)
        ELSE buf1

\* the two copyFrom calls
writeStore(buf, w, source) ==
    LET buf1 == copyFrom(buf, w.index1, source, 0, w.size1)
    IN  IF w.size2 > 0
        THEN copyFrom(buf1, w.index2, source, w.size1, w.size2)
        ELSE buf1

\* the two fillTimestamps calls
writeTable(arr, w, timestamp) ==
    LET arr1 == fillTimestamps(arr, w.index1, w.size1, timestamp)
    IN  IF w.size2 > 0
        THEN fillTimestamps(arr1, w.index2, w.size2, timestamp + w.size1)
        ELSE arr1

\* a mutation of writeCommit: the write cursor advances by the requested length
writeCommitRequested(f, w, nSamples) == finishedWrite(f, nSamples)

\* the finishedWrite call
writeCommit(f, w, nSamples) == finishedWrite(f, w.size1 + w.size2)

\* the samples that reached the store, in write order
accepted(w, source) == SubSeq(source, 1, w.size1 + w.size2)

----------------------------------------------------------------------------
(* DataQueue::startRead, the work on one channel *)

\* a mutation of samplesToRead: the cap is ignored
samplesToReadUncapped(readyToRead, nMax) == readyToRead

samplesToRead(readyToRead, nMax) ==
    IF (readyToRead > nMax) /\ (nMax > 0) THEN nMax ELSE readyToRead

readWindow(f, nMax) == prepareToRead(f, samplesToRead(getNumReady(f), nMax))

blockDiffOf(idx) ==
    LET blockMod == idx.index1 % BlockSize
    IN  IF blockMod = 0 THEN 0 ELSE BlockSize - blockMod

\* TRUE when the next block start lies inside the data being read
touchesBlock(idx) == blockDiffOf(idx) < (idx.size1 + idx.size2)

reconcile(arr, lastTs, idx, numBlocks) ==
    IF touchesBlock(idx)
    THEN LET blockIdx == ((idx.index1 + blockDiffOf(idx)) \div BlockSize) % numBlocks
         IN  getUnchecked(arr, blockIdx) - blockDiffOf(idx)
    ELSE lastTs

----------------------------------------------------------------------------
(* Construction *)

Chans == 0..(m_numChans - 1)
Streams == 0..(MaxChans - 1)

Init ==
    /\ m_numChans = 0
    /\ m_numBlocks = InitBlocks
    /\ m_maxSize = BlockSize * InitBlocks
    /\ m_readInProgress = FALSE
    /\ m_fifos = << >>
    /\ m_readSamples = << >>
    /\ m_timestamps = << >>
    /\ m_lastReadTimestamps = << >>
    /\ m_buffer = << >>
    /\ indexes = << >>
    /\ timestamps = << >>
    /\ nextTs = [c \in Streams |-> StartTs]
    /\ pending = << >>
    /\ hadSession = << >>
    /\ wroteDuring = << >>
    /\ lastOp = NoOp
    /\ reconfigs = 0
    /\ cpc = "idle" /\ cargs = 0 /\ ci = 0
    /\ rpc = "idle" /\ rargs = 0 /\ rchan = 0 /\ rn = 0
    /\ wpc = "idle" /\ wargs = NoWrite /\ ww = NoWindow
    /\ snap = << >>
    /\ delivered = << >>

----------------------------------------------------------------------------
(* Operations, each run to completion *)

\* mutations of the guards: the test of m_readInProgress is missing
noGuard(readInProgress) == FALSE

\* if (m_readInProgress) return;  in setChannels
setChannelsRefused(readInProgress) == readInProgress

\* if (m_readInProgress) return;  in resize
resizeRefused(readInProgress) == readInProgress

\* if (m_readInProgress) return false;  in startRead
startReadRefused(readInProgress) == readInProgress

\* if (!m_readInProgress) return;  in stopRead
stopReadRefused(readInProgress) == ~readInProgress

\* a mutation of stopCommit: everything ready is released
stopCommitReady(f, readSamples) == finishedRead(f, getNumReady(f))

\* a mutation of stopCommit: the read cursor is not advanced
stopCommitNothing(f, readSamples) == f

\* the finishedRead call of stopRead
stopCommit(f, readSamples) == finishedRead(f, readSamples)

\* a mutation of setChannels: m_lastReadTimestamps is not cleared before the
\* loop, so the zeros are appended behind the entries of the old channels
setChannelsKeepsLast(nChans) ==
    /\ lastOp' = [NoOp EXCEPT !.op = "setChannels", !.n = nChans,
                              !.open = m_readInProgress,
                              !.ret = ~setChannelsRefused(m_readInProgress)]
    /\ UNCHANGED <<outvars, nextTs, pcvars, m_numBlocks, m_maxSize, m_readInProgress>>
    /\ IF setChannelsRefused(m_readInProgress)
       THEN UNCHANGED <<m_numChans, m_fifos, m_readSamples, m_timestamps,
                        m_lastReadTimestamps, m_buffer, pending, hadSession,
                        wroteDuring>>
       ELSE /\ m_numChans' = nChans
            /\ m_fifos' = [c \in 0..(nChans - 1) |-> newFifo(m_maxSize)]
            /\ m_readSamples' = [c \in 0..(nChans - 1) |-> 0]
            /\ m_timestamps' = [c \in 0..(nChans - 1) |-> ArrayResize(<< >>, m_numBlocks)]
            /\ m_lastReadTimestamps' =
                   [c \in 0..(nChans - 1) |->
                       IF c \in Chans THEN m_lastReadTimestamps[c] ELSE 0]
            /\ m_buffer' = setSize(m_buffer, m_numChans, m_maxSize, nChans, m_maxSize)
            /\ pending' = [c \in 0..(nChans - 1) |-> << >>]
            /\ hadSession' = [c \in 0..(nChans - 1) |-> FALSE]
            /\ wroteDuring' = [c \in 0..(nChans - 1) |-> FALSE]

setChannels(nChans) ==
    /\ lastOp' = [NoOp EXCEPT !.op = "setChannels", !.n = nChans,
                              !.open = m_readInProgress,
                              !.ret = ~setChannelsRefused(m_readInProgress)]
    /\ UNCHANGED <<outvars, nextTs, pcvars, m_numBlocks, m_maxSize, m_readInProgress>>
    /\ IF setChannelsRefused(m_readInProgress)
       THEN UNCHANGED <<m_numChans, m_fifos, m_readSamples, m_timestamps,
                        m_lastReadTimestamps, m_buffer, pending, hadSession,
                        wroteDuring>>
       ELSE /\ m_numChans' = nChans
            /\ m_fifos' = [c \in 0..(nChans - 1) |-> newFifo(m_maxSize)]
            /\ m_readSamples' = [c \in 0..(nChans - 1) |-> 0]
            /\ m_timestamps' = [c \in 0..(nChans - 1) |-> ArrayResize(<< >>, m_numBlocks)]
            /\ m_lastReadTimestamps' = [c \in 0..(nChans - 1) |-> 0]
            /\ m_buffer' = setSize(m_buffer, m_numChans, m_maxSize, nChans, m_maxSize)
            /\ pending' = [c \in 0..(nChans - 1) |-> << >>]
            /\ hadSession' = [c \in 0..(nChans - 1) |-> FALSE]
            /\ wroteDuring' = [c \in 0..(nChans - 1) |-> FALSE]

\* a mutation of resize: the rings are reset but keep their old capacity
resizeKeepsRings(nBlocks) ==
    /\ lastOp' = [NoOp EXCEPT !.op = "resize", !.n = nBlocks,
                              !.open = m_readInProgress,
                              !.ret = ~resizeRefused(m_readInProgress)]
    /\ UNCHANGED <<outvars, nextTs, pcvars, m_numChans, m_readInProgress>>
    /\ IF resizeRefused(m_readInProgress)
       THEN UNCHANGED <<m_numBlocks, m_maxSize, m_fifos, m_readSamples, m_timestamps,
                        m_lastReadTimestamps, m_buffer, pending, hadSession,
                        wroteDuring>>
       ELSE LET size == BlockSize * nBlocks
            IN  /\ m_maxSize' = size
                /\ m_numBlocks' = nBlocks
                /\ m_fifos' = [c \in Chans |->
                                  setTotalSizeAndReset(m_fifos[c], m_fifos[c].bufferSize)]
                /\ m_readSamples' = [c \in Chans |-> 0]
                /\ m_timestamps' = [c \in Chans |-> ArrayResize(m_timestamps[c], nBlocks)]
                /\ m_lastReadTimestamps' = [c \in Chans |-> 0]
                /\ m_buffer' = setSize(m_buffer, m_numChans, m_maxSize, m_numChans, size)
                /\ pending' = [c \in Chans |-> << >>]
                /\ hadSession' = [c \in Chans |-> FALSE]
                /\ wroteDuring' = [c \in Chans |-> FALSE]

resize(nBlocks) ==
    /\ lastOp' = [NoOp EXCEPT !.op = "resize", !.n = nBlocks,
                              !.open = m_readInProgress,
                              !.ret = ~resizeRefused(m_readInProgress)]
    /\ UNCHANGED <<outvars, nextTs, pcvars, m_numChans, m_readInProgress>>
    /\ IF resizeRefused(m_readInProgress)
       THEN UNCHANGED <<m_numBlocks, m_maxSize, m_fifos, m_readSamples, m_timestamps,
                        m_lastReadTimestamps, m_buffer, pending, hadSession,
                        wroteDuring>>
       ELSE LET size == BlockSize * nBlocks
            IN  /\ m_maxSize' = size
                /\ m_numBlocks' = nBlocks
                /\ m_fifos' = [c \in Chans |-> setTotalSizeAndReset(m_fifos[c], size)]
                /\ m_readSamples' = [c \in Chans |-> 0]
                /\ m_timestamps' = [c \in Chans |-> ArrayResize(m_timestamps[c], nBlocks)]
                /\ m_lastReadTimestamps' = [c \in Chans |-> 0]
                /\ m_buffer' = setSize(m_buffer, m_numChans, m_maxSize, m_numChans, size)
                /\ pending' = [c \in Chans |-> << >>]
                /\ hadSession' = [c \in Chans |-> FALSE]
                /\ wroteDuring' = [c \in Chans |-> FALSE]

writeChannel(channel, nSamples, timestamp) ==
    LET w == prepareToWrite(m_fifos[channel], nSamples)
        source == sourceBuffer(nSamples, timestamp)
    IN  /\ m_buffer' = [m_buffer EXCEPT ![channel] = writeStore(@, w, source)]
        /\ m_timestamps' = [m_timestamps EXCEPT ![channel] = writeTable(@, w, timestamp)]
        /\ m_fifos' = [m_fifos EXCEPT ![channel] = writeCommit(@, w, nSamples)]
        /\ pending' = [pending EXCEPT ![channel] = @ \o accepted(w, source)]
        /\ nextTs' = [nextTs EXCEPT ![channel] = timestamp + nSamples]
        /\ wroteDuring' = [wroteDuring EXCEPT ![channel] = @ \/ (w.size1 + w.size2 > 0)]
        /\ lastOp' = [op |-> "writeChannel", chan |-> channel, n |-> nSamples,
                      ts |-> timestamp, ret |-> TRUE, open |-> m_readInProgress,
                      stored |-> w.size1 + w.size2,
                      fresh |-> /\ getNumReady(m_fifos[channel]) = 0
                                /\ m_fifos[channel].validEnd % BlockSize = 0]
        /\ UNCHANGED <<m_numChans, m_numBlocks, m_maxSize, m_readInProgress,
                       m_readSamples, m_lastReadTimestamps, outvars, hadSession, pcvars>>

startRead(nMax) ==
    /\ lastOp' = [NoOp EXCEPT !.op = "startRead", !.n = nMax,
                              !.open = m_readInProgress,
                              !.ret = ~startReadRefused(m_readInProgress)]
    /\ UNCHANGED <<m_numChans, m_numBlocks, m_maxSize, m_fifos, m_timestamps, m_buffer,
                   nextTs, pending, pcvars>>
    /\ IF startReadRefused(m_readInProgress)
       THEN UNCHANGED <<m_readInProgress, m_readSamples, m_lastReadTimestamps,
                        outvars, hadSession, wroteDuring>>
       ELSE LET idx == [c \in Chans |-> readWindow(m_fifos[c], nMax)]
                ts == [c \in Chans |-> reconcile(m_timestamps[c], m_lastReadTimestamps[c],
                                                 idx[c], m_numBlocks)]
            IN  /\ m_readInProgress' = TRUE
                /\ indexes' = idx
                /\ timestamps' = ts
                /\ m_readSamples' = [c \in Chans |-> idx[c].size1 + idx[c].size2]
                /\ m_lastReadTimestamps' =
                       [c \in Chans |-> ts[c] + idx[c].size1 + idx[c].size2]
                /\ hadSession' = [c \in Chans |-> TRUE]
                /\ wroteDuring' = [c \in Chans |-> FALSE]

\* a mutation of stopRead: the guard is missing and every channel releases
\* all that is ready
stopReadFlush ==
    /\ lastOp' = [NoOp EXCEPT !.op = "stopRead", !.open = m_readInProgress,
                              !.ret = ~stopReadRefused(m_readInProgress)]
    /\ UNCHANGED <<m_numChans, m_numBlocks, m_maxSize, m_timestamps, m_lastReadTimestamps,
                   m_buffer, outvars, nextTs, hadSession, wroteDuring, pcvars>>
    /\ m_fifos' = [c \in Chans |-> stopCommitReady(m_fifos[c], m_readSamples[c])]
    /\ m_readSamples' = [c \in Chans |-> 0]
    /\ pending' = [c \in Chans |-> << >>]
    /\ m_readInProgress' = FALSE

\* a mutation of stopRead: the recorded lengths are not set back to 0
stopReadNoReset ==
    /\ lastOp' = [NoOp EXCEPT !.op = "stopRead", !.open = m_readInProgress,
                              !.ret = ~stopReadRefused(m_readInProgress)]
    /\ UNCHANGED <<m_numChans, m_numBlocks, m_maxSize, m_timestamps, m_lastReadTimestamps,
                   m_buffer, outvars, nextTs, hadSession, wroteDuring, pcvars>>
    /\ IF stopReadRefused(m_readInProgress)
       THEN UNCHANGED <<m_readInProgress, m_fifos, m_readSamples, pending>>
       ELSE /\ m_fifos' = [c \in Chans |-> stopCommit(m_fifos[c], m_readSamples[c])]
            /\ UNCHANGED m_readSamples
            /\ pending' = [c \in Chans |->
                              SubSeq(pending[c], m_readSamples[c] + 1, Len(pending[c]))]
            /\ m_readInProgress' = FALSE

stopRead ==
    /\ lastOp' = [NoOp EXCEPT !.op = "stopRead", !.open = m_readInProgress,
                              !.ret = ~stopReadRefused(m_readInProgress)]
    /\ UNCHANGED <<m_numChans, m_numBlocks, m_maxSize, m_timestamps, m_lastReadTimestamps,
                   m_buffer, outvars, nextTs, hadSession, wroteDuring, pcvars>>
    /\ IF stopReadRefused(m_readInProgress)
       THEN UNCHANGED <<m_readInProgress, m_fifos, m_readSamples, pending>>
       ELSE /\ m_fifos' = [c \in Chans |-> stopCommit(m_fifos[c], m_readSamples[c])]
            /\ m_readSamples' = [c \in Chans |-> 0]
            /\ pending' = [c \in Chans |->
                              SubSeq(pending[c], m_readSamples[c] + 1, Len(pending[c]))]
            /\ m_readInProgress' = FALSE

----------------------------------------------------------------------------
(* Callers: the control context, the writer (a gap-free stream per channel, *)
(* StreamLen samples long) and the reader                                   *)

\* the control context may call once more
mayReconfigure == reconfigs < MaxReconfig
reconfigured == reconfigs + 1

Control ==
    /\ mayReconfigure
    /\ reconfigs' = reconfigured
    /\ UNCHANGED livevars
    /\ \/ \E nChans \in 0..MaxChans : setChannels(nChans)
       \/ \E nBlocks \in 1..MaxBlocks : resize(nBlocks)

RECURSIVE streamed(_)
streamed(c) == IF c < 0 THEN 0 ELSE (nextTs[c] - StartTs) + streamed(c - 1)

Writer ==
    \E channel \in Chans, nSamples \in 1..MaxSamples :
        /\ streamed(MaxChans - 1) + nSamples <= StreamLen
        /\ writeChannel(channel, nSamples, nextTs[channel])
        /\ UNCHANGED <<ctlvars, livevars>>

Reader ==
    /\ \/ \E nMax \in 0..MaxCap : startRead(nMax)
       \/ stopRead
    /\ UNCHANGED <<ctlvars, livevars>>

Next == Control \/ Writer \/ Reader

Spec == Init /\ [][Next]_vars

----------------------------------------------------------------------------
(* The same operations as interleaved steps of a control context and a      *)
(* reader.  m_readInProgress is a plain bool: its test and its assignment   *)
(* are separate steps, and each loop iteration is a step.  The writer runs  *)
(* writeChannel to completion between the calls of the two contexts.        *)

step(name) == [NoOp EXCEPT !.op = name, !.open = m_readInProgress]

extend(f, c, v) == [k \in (DOMAIN f) \cup {c} |-> IF k = c THEN v ELSE f[k]]

\* setChannels, line 40: the test of the flag
scTest(nChans) ==
    /\ cpc = "idle" /\ mayReconfigure
    /\ reconfigs' = reconfigured
    /\ IF setChannelsRefused(m_readInProgress)
       THEN UNCHANGED <<cpc, cargs>>
       ELSE cpc' = "sc_clear" /\ cargs' = nChans
    /\ lastOp' = step("setChannels:test")
    /\ UNCHANGED <<qvars, outvars, nextTs, pending, hadSession, wroteDuring,
                   ci, rpc, rargs, rchan,
                   rwvars, livevars>>

\* setChannels, lines 43-47
scClear ==
    /\ cpc = "sc_clear"
    /\ m_fifos' = << >>
    /\ m_readSamples' = << >>
    /\ m_numChans' = cargs
    /\ m_timestamps' = << >>
    /\ m_lastReadTimestamps' = << >>
    /\ pending' = << >> /\ hadSession' = << >> /\ wroteDuring' = << >>
    /\ cpc' = IF 0 < cargs THEN "sc_add" ELSE "sc_setSize"
    /\ ci' = 0
    /\ lastOp' = step("setChannels:clear")
    /\ UNCHANGED <<m_numBlocks, m_maxSize, m_readInProgress, m_buffer, outvars, nextTs,
                   ctlvars, cargs, rpc, rargs, rchan,
                   rwvars, livevars>>

\* setChannels, lines 51-55: one iteration of the loop
scAdd ==
    /\ cpc = "sc_add"
    /\ m_fifos' = extend(m_fifos, ci, newFifo(m_maxSize))
    /\ m_readSamples' = extend(m_readSamples, ci, 0)
    /\ m_timestamps' = extend(m_timestamps, ci, ArrayResize(<< >>, m_numBlocks))
    /\ m_lastReadTimestamps' = extend(m_lastReadTimestamps, ci, 0)
    /\ pending' = extend(pending, ci, << >>)
    /\ hadSession' = extend(hadSession, ci, FALSE)
    /\ wroteDuring' = extend(wroteDuring, ci, FALSE)
    /\ ci' = ci + 1
    /\ cpc' = IF ci + 1 < cargs THEN "sc_add" ELSE "sc_setSize"
    /\ lastOp' = step("setChannels:add")
    /\ UNCHANGED <<m_numChans, m_numBlocks, m_maxSize, m_readInProgress, m_buffer,
                   outvars, nextTs, ctlvars, cargs, rpc, rargs, rchan,
                   rwvars, livevars>>

\* setChannels, line 57
scSetSize ==
    /\ cpc = "sc_setSize"
    /\ m_buffer' = setSize(m_buffer, Cardinality(DOMAIN m_buffer), m_maxSize,
                           cargs, m_maxSize)
    /\ cpc' = "idle" /\ cargs' = 0 /\ ci' = 0
    /\ lastOp' = step("setChannels:setSize")
    /\ UNCHANGED <<m_numChans, m_numBlocks, m_maxSize, m_readInProgress, m_fifos,
                   m_readSamples, m_timestamps, m_lastReadTimestamps, outvars, nextTs,
                   pending, hadSession, wroteDuring, ctlvars,
                   rpc, rargs, rchan,
                   rwvars, livevars>>

\* resize, line 72: the test of the flag
rsTest(nBlocks) ==
    /\ cpc = "idle" /\ mayReconfigure
    /\ reconfigs' = reconfigured
    /\ IF resizeRefused(m_readInProgress)
       THEN UNCHANGED <<cpc, cargs>>
       ELSE cpc' = "rs_size" /\ cargs' = nBlocks
    /\ lastOp' = step("resize:test")
    /\ UNCHANGED <<qvars, outvars, nextTs, pending, hadSession, wroteDuring,
                   ci, rpc, rargs, rchan,
                   rwvars, livevars>>

\* resize, lines 75-77
rsSize ==
    /\ cpc = "rs_size"
    /\ m_maxSize' = BlockSize * cargs
    /\ m_numBlocks' = cargs
    /\ cpc' = IF 0 < m_numChans THEN "rs_chan" ELSE "rs_setSize"
    /\ ci' = 0
    /\ lastOp' = step("resize:size")
    /\ UNCHANGED <<m_numChans, m_readInProgress, m_fifos, m_readSamples, m_timestamps,
                   m_lastReadTimestamps, m_buffer, outvars, nextTs, pending, hadSession,
                   wroteDuring, ctlvars, cargs, rpc, rargs, rchan,
                   rwvars, livevars>>

\* resize, lines 81-85: one iteration of the loop
rsChan ==
    /\ cpc = "rs_chan"
    /\ m_fifos' = [m_fifos EXCEPT ![ci] = setTotalSizeAndReset(@, m_maxSize)]
    /\ m_readSamples' = [m_readSamples EXCEPT ![ci] = 0]
    /\ m_timestamps' = [m_timestamps EXCEPT ![ci] = ArrayResize(@, cargs)]
    /\ m_lastReadTimestamps' = [m_lastReadTimestamps EXCEPT ![ci] = 0]
    /\ pending' = [pending EXCEPT ![ci] = << >>]
    /\ hadSession' = [hadSession EXCEPT ![ci] = FALSE]
    /\ wroteDuring' = [wroteDuring EXCEPT ![ci] = FALSE]
    /\ ci' = ci + 1
    /\ cpc' = IF ci + 1 < m_numChans THEN "rs_chan" ELSE "rs_setSize"
    /\ lastOp' = step("resize:chan")
    /\ UNCHANGED <<m_numChans, m_numBlocks, m_maxSize, m_readInProgress, m_buffer,
                   outvars, nextTs, ctlvars, cargs, rpc, rargs, rchan,
                   rwvars, livevars>>

\* resize, line 87
rsSetSize ==
    /\ cpc = "rs_setSize"
    /\ m_buffer' = setSize(m_buffer, m_numChans,
                           IF m_numChans > 0 THEN Cardinality(DOMAIN m_buffer[0]) ELSE 0,
                           m_numChans, m_maxSize)
    /\ cpc' = "idle" /\ cargs' = 0 /\ ci' = 0
    /\ lastOp' = step("resize:setSize")
    /\ UNCHANGED <<m_numChans, m_numBlocks, m_maxSize, m_readInProgress, m_fifos,
                   m_readSamples, m_timestamps, m_lastReadTimestamps, outvars, nextTs,
                   pending, hadSession, wroteDuring, ctlvars,
                   rpc, rargs, rchan,
                   rwvars, livevars>>

\* startRead, line 172: the test of the flag
srTest(nMax) ==
    /\ rpc = "idle"
    /\ IF startReadRefused(m_readInProgress)
       THEN UNCHANGED <<rpc, rargs>>
       ELSE rpc' = "sr_set" /\ rargs' = nMax
    /\ lastOp' = step("startRead:test")
    /\ UNCHANGED <<qvars, outvars, nextTs, pending, hadSession, wroteDuring,
                   ctlvars, cpc, cargs, ci, rchan,
                   rwvars, livevars>>

\* startRead, lines 175-177
srSet ==
    /\ rpc = "sr_set"
    /\ m_readInProgress' = TRUE
    /\ indexes' = << >>
    /\ timestamps' = << >>
    /\ rchan' = 0
    /\ rpc' = "sr_chan"
    /\ lastOp' = step("startRead:set")
    /\ UNCHANGED <<m_numChans, m_numBlocks, m_maxSize, m_fifos, m_readSamples,
                   m_timestamps, m_lastReadTimestamps, m_buffer, nextTs, pending,
                   hadSession, wroteDuring, ctlvars, cpc, cargs, ci, rargs,
                   rwvars, livevars>>

\* TRUE when iteration chan of the startRead loop reads only existing elements
srChanDefined ==
    /\ rchan \in DOMAIN m_fifos
    /\ LET idx == readWindow(m_fifos[rchan], rargs)
       IN  touchesBlock(idx) =>
               ((idx.index1 + blockDiffOf(idx)) \div BlockSize) % m_numBlocks
                   < Len(m_timestamps[rchan])

\* startRead, lines 179-208: the loop test and one iteration
srChan ==
    /\ rpc = "sr_chan"
    /\ IF rchan < m_numChans
       THEN /\ srChanDefined
            /\ LET idx == readWindow(m_fifos[rchan], rargs)
                   ts == reconcile(m_timestamps[rchan], m_lastReadTimestamps[rchan],
                                   idx, m_numBlocks)
               IN  /\ indexes' = extend(indexes, rchan, idx)
                   /\ timestamps' = extend(timestamps, rchan, ts)
                   /\ m_readSamples' = [m_readSamples EXCEPT ![rchan] = (idx.size1 + idx.size2)]
                   /\ m_lastReadTimestamps' =
                          [m_lastReadTimestamps EXCEPT ![rchan] = ts + (idx.size1 + idx.size2)]
                   /\ hadSession' = [hadSession EXCEPT ![rchan] = TRUE]
                   /\ wroteDuring' = [wroteDuring EXCEPT ![rchan] = FALSE]
            /\ rchan' = rchan + 1
            /\ UNCHANGED <<rpc, rargs>>
       ELSE /\ rpc' = "idle" /\ rargs' = 0 /\ rchan' = 0
            /\ UNCHANGED <<indexes, timestamps, m_readSamples, m_lastReadTimestamps,
                           hadSession, wroteDuring>>
    /\ lastOp' = step("startRead:chan")
    /\ UNCHANGED <<m_numChans, m_numBlocks, m_maxSize, m_readInProgress, m_fifos,
                   m_timestamps, m_buffer, nextTs, pending, ctlvars,
                   cpc, cargs, ci,
                   rwvars, livevars>>

\* stopRead, line 214: the test of the flag
stTest ==
    /\ rpc = "idle"
    /\ IF stopReadRefused(m_readInProgress)
       THEN UNCHANGED <<rpc, rchan>>
       ELSE rpc' = "st_commit" /\ rchan' = 0
    /\ lastOp' = step("stopRead:test")
    /\ UNCHANGED <<qvars, outvars, nextTs, pending, hadSession, wroteDuring,
                   ctlvars, cpc, cargs, ci, rargs,
                   rwvars, livevars>>

\* stopRead, lines 217-222: the loop test, one iteration, and the reset of the flag
stCommit ==
    /\ rpc = "st_commit"
    /\ IF rchan < m_numChans
       THEN /\ rchan \in DOMAIN m_fifos
            /\ m_fifos' = [m_fifos EXCEPT ![rchan] = stopCommit(@, m_readSamples[rchan])]
            /\ m_readSamples' = [m_readSamples EXCEPT ![rchan] = 0]
            /\ pending' = [pending EXCEPT ![rchan] =
                              SubSeq(@, m_readSamples[rchan] + 1, Len(@))]
            /\ rchan' = rchan + 1
            /\ UNCHANGED <<rpc, m_readInProgress>>
       ELSE /\ m_readInProgress' = FALSE
            /\ rpc' = "idle" /\ rchan' = 0
            /\ UNCHANGED <<m_fifos, m_readSamples, pending>>
    /\ lastOp' = step("stopRead:commit")
    /\ UNCHANGED <<m_numChans, m_numBlocks, m_maxSize, m_timestamps,
                   m_lastReadTimestamps, m_buffer, outvars, nextTs, hadSession,
                   wroteDuring, ctlvars, cpc, cargs, ci, rargs,
                   rwvars, livevars>>

\* a loop iteration of the reader that indexes an element the control context
\* has removed or not yet resized (null AbstractFifo, timestamp slot past the
\* end): undefined behaviour, the reader context is lost
readerFault ==
    /\ \/ rpc = "sr_chan" /\ rchan < m_numChans /\ ~srChanDefined
       \/ rpc = "st_commit" /\ rchan < m_numChans /\ rchan \notin DOMAIN m_fifos
    /\ rpc' = "ub"
    /\ lastOp' = step("reader:fault")
    /\ UNCHANGED <<qvars, outvars, nextTs, pending, hadSession, wroteDuring,
                   ctlvars, cpc, cargs, ci, rargs, rchan,
                   rwvars, livevars>>

WriterBetweenCalls ==
    /\ cpc = "idle" /\ rpc = "idle"
    /\ Writer

ControlSteps ==
    \/ \E nChans \in 0..MaxChans : scTest(nChans)
    \/ scClear
    \/ scAdd
    \/ scSetSize
    \/ \E nBlocks \in 1..MaxBlocks : rsTest(nBlocks)
    \/ rsSize
    \/ rsChan
    \/ rsSetSize

ReaderSteps ==
    \/ \E nMax \in 0..MaxCap : srTest(nMax)
    \/ srSet
    \/ srChan
    \/ stTest
    \/ stCommit
    \/ readerFault

NextConc == ControlSteps \/ ReaderSteps \/ WriterBetweenCalls

SpecConc == Init /\ [][NextConc]_vars

----------------------------------------------------------------------------
(* One writer and one reader as interleaved steps.  writeChannel is split   *)
(* at its calls: prepareToWrite, the copy and the stamping of each window,  *)
(* finishedWrite.  An iteration of startRead is split where it reads the    *)
(* ready count and where it obtains the windows.  The queue is configured   *)
(* before the first sample is written and not afterwards; the writer       *)
(* streams into channel 0, the reader's sessions cover every channel.       *)

\* setChannels and resize, run to completion before the stream starts
ControlSetup ==
    /\ cpc = "idle" /\ rpc = "idle" /\ wpc = "idle"
    /\ streamed(MaxChans - 1) = 0
    /\ Control

\* a mutation of wReserve: finishedWrite is called right after prepareToWrite,
\* before the samples are copied
wReserveCommits(channel, nSamples) ==
    /\ wpc = "idle" /\ cpc = "idle"
    /\ streamed(MaxChans - 1) + nSamples <= StreamLen
    /\ ww' = prepareToWrite(m_fifos[channel], nSamples)
    /\ wargs' = [chan |-> channel, n |-> nSamples, ts |-> nextTs[channel]]
    /\ nextTs' = [nextTs EXCEPT ![channel] = @ + nSamples]
    /\ wpc' = "copy1"
    /\ m_fifos' = [m_fifos EXCEPT ![channel] = writeCommit(@, ww', nSamples)]
    /\ lastOp' = step("writeChannel:reserve")
    /\ UNCHANGED <<m_numChans, m_numBlocks, m_maxSize, m_readInProgress,
                   m_readSamples, m_timestamps, m_lastReadTimestamps, m_buffer,
                   outvars, pending, hadSession, wroteDuring,
                   ctlvars, cpc, cargs, ci, rpc, rargs, rchan, rn, snap, livevars>>

\* writeChannel, lines 124-132: prepareToWrite and the overflow report
wReserve(channel, nSamples) ==
    /\ wpc = "idle" /\ cpc = "idle"
    /\ streamed(MaxChans - 1) + nSamples <= StreamLen
    /\ ww' = prepareToWrite(m_fifos[channel], nSamples)
    /\ wargs' = [chan |-> channel, n |-> nSamples, ts |-> nextTs[channel]]
    /\ nextTs' = [nextTs EXCEPT ![channel] = @ + nSamples]
    /\ wpc' = "copy1"
    /\ lastOp' = step("writeChannel:reserve")
    /\ UNCHANGED <<qvars, outvars, pending, hadSession, wroteDuring,
                   ctlvars, cpc, cargs, ci, rpc, rargs, rchan, rn, snap, livevars>>

\* writeChannel, lines 133-138 and 144-149: copyFrom into window 1 or window 2
wCopy(from, to, index, sourceStart, size) ==
    /\ wpc = from
    /\ LET source == sourceBuffer(wargs.n, wargs.ts)
       IN  /\ m_buffer' = [m_buffer EXCEPT ![wargs.chan] =
                              copyFrom(@, index, source, sourceStart, size)]
           /\ pending' = [pending EXCEPT ![wargs.chan] =
                             @ \o SubSeq(source, sourceStart + 1, sourceStart + size)]
    /\ wpc' = to
    /\ lastOp' = step("writeChannel:copy")
    /\ UNCHANGED <<m_numChans, m_numBlocks, m_maxSize, m_readInProgress, m_fifos,
                   m_readSamples, m_timestamps, m_lastReadTimestamps, outvars, nextTs,
                   hadSession, wroteDuring, ctlvars, cpc, cargs, ci, rpc, rargs, rchan,
                   rn, wargs, ww, snap, livevars>>

wCopy1 == wCopy("copy1", "stamp1", ww.index1, 0, ww.size1)

wCopy2 == wCopy("copy2", "stamp2", ww.index2, ww.size1, ww.size2)

\* writeChannel, lines 140 and 151: fillTimestamps for window 1 or window 2
wStamp(from, to, index, size, timestamp) ==
    /\ wpc = from
    /\ m_timestamps' = [m_timestamps EXCEPT ![wargs.chan] =
                           fillTimestamps(@, index, size, timestamp)]
    /\ wpc' = to
    /\ lastOp' = step("writeChannel:stamp")
    /\ UNCHANGED <<m_numChans, m_numBlocks, m_maxSize, m_readInProgress, m_fifos,
                   m_readSamples, m_lastReadTimestamps, m_buffer, outvars, nextTs,
                   pending, hadSession, wroteDuring, ctlvars, cpc, cargs, ci,
                   rpc, rargs, rchan, rn, wargs, ww, snap, livevars>>

\* line 142: the second window is handled only when it is not empty
wStamp1 ==
    wStamp("stamp1", IF ww.size2 > 0 THEN "copy2" ELSE "commit",
           ww.index1, ww.size1, wargs.ts)

wStamp2 == wStamp("stamp2", "commit", ww.index2, ww.size2, wargs.ts + ww.size1)

\* writeChannel, line 153: finishedWrite
wCommit ==
    /\ wpc = "commit"
    /\ m_fifos' = [m_fifos EXCEPT ![wargs.chan] = writeCommit(@, ww, wargs.n)]
    /\ wroteDuring' = [wroteDuring EXCEPT ![wargs.chan] = @ \/ (ww.size1 + ww.size2 > 0)]
    /\ wpc' = "idle" /\ wargs' = NoWrite /\ ww' = NoWindow
    /\ lastOp' = step("writeChannel:commit")
    /\ UNCHANGED <<m_numChans, m_numBlocks, m_maxSize, m_readInProgress,
                   m_readSamples, m_timestamps, m_lastReadTimestamps, m_buffer,
                   outvars, nextTs, pending, hadSession, ctlvars, cpc, cargs, ci,
                   rpc, rargs, rchan, rn, snap, livevars>>

\* startRead, lines 179-183: the loop test and the read of the ready count
srReady ==
    /\ rpc = "sr_chan"
    /\ IF rchan < m_numChans
       THEN /\ rn' = samplesToRead(getNumReady(m_fifos[rchan]), rargs)
            /\ snap' = extend(snap, rchan, pending[rchan])
            /\ rpc' = "sr_window"
            /\ UNCHANGED <<rargs, rchan>>
       ELSE /\ rpc' = "idle" /\ rargs' = 0 /\ rchan' = 0
            /\ UNCHANGED <<rn, snap>>
    /\ lastOp' = step("startRead:ready")
    /\ UNCHANGED <<qvars, outvars, nextTs, pending, hadSession, wroteDuring,
                   ctlvars, cpc, cargs, ci, wpc, wargs, ww, livevars>>

\* startRead, lines 185-207: prepareToRead and the rest of the iteration
srWindow ==
    /\ rpc = "sr_window"
    /\ LET idx == prepareToRead(m_fifos[rchan], rn)
           ts == reconcile(m_timestamps[rchan], m_lastReadTimestamps[rchan],
                           idx, m_numBlocks)
       IN  /\ indexes' = extend(indexes, rchan, idx)
           /\ timestamps' = extend(timestamps, rchan, ts)
           /\ m_readSamples' = [m_readSamples EXCEPT ![rchan] = (idx.size1 + idx.size2)]
           /\ m_lastReadTimestamps' =
                  [m_lastReadTimestamps EXCEPT ![rchan] = ts + (idx.size1 + idx.size2)]
    /\ hadSession' = [hadSession EXCEPT ![rchan] = TRUE]
    /\ wroteDuring' = [wroteDuring EXCEPT ![rchan] = FALSE]
    /\ rchan' = rchan + 1
    /\ rpc' = "sr_chan"
    /\ rn' = 0
    /\ lastOp' = step("startRead:window")
    /\ UNCHANGED <<m_numChans, m_numBlocks, m_maxSize, m_readInProgress, m_fifos,
                   m_timestamps, m_buffer, nextTs, pending, ctlvars,
                   cpc, cargs, ci, rargs, wpc, wargs, ww, snap, livevars>>

WriterSteps ==
    \/ \E channel \in Chans \cap {0}, nSamples \in 1..MaxSamples :
           wReserve(channel, nSamples)
    \/ wCopy1
    \/ wStamp1
    \/ wCopy2
    \/ wStamp2
    \/ wCommit

ReaderStepsRW ==
    \/ \E nMax \in 0..MaxCap : srTest(nMax)
    \/ srSet
    \/ srReady
    \/ srWindow
    \/ stTest
    \/ stCommit

NextRW == ControlSetup \/ WriterSteps \/ ReaderStepsRW

SpecRW == Init /\ [][NextRW]_vars

----------------------------------------------------------------------------
(* Observations used by the properties *)

windowLen(idx) == idx.size1 + idx.size2

\* ring positions of a window pair
windowPositions(idx) ==
    {p \in 0..(m_maxSize - 1) :
        \/ (p >= idx.index1 /\ p < idx.index1 + idx.size1)
        \/ (p >= idx.index2 /\ p < idx.index2 + idx.size2)}

\* the content of the sample store at window 1 followed by window 2
windowSamples(buf, idx) ==
    [k \in 1..windowLen(idx) |->
        IF k <= idx.size1 THEN buf[idx.index1 + (k - 1)]
                          ELSE buf[idx.index2 + (k - idx.size1 - 1)]]

\* ring positions holding samples written and not yet released by stopRead
unreleased(f) ==
    {(f.validStart + k) % f.bufferSize : k \in 0..(getNumReady(f) - 1)}

startReadDone == lastOp.op = "startRead" /\ lastOp.ret

----------------------------------------------------------------------------
(* C1: whenever startRead returns a non-empty window for a channel, the      *)
(* reconciled timestamp equals the timestamp of the sample stored at the    *)
(* window's first index.                                                    *)
C1_TimestampOfFirstSample ==
    startReadDone =>
        \A c \in Chans :
            windowLen(indexes[c]) > 0 =>
                timestamps[c] = m_buffer[c][indexes[c].index1]

(* C2: while a session is open the store holds, at window 1 followed by     *)
(* window 2, exactly the oldest not-yet-released accepted samples in write  *)
(* order; the windows do not overlap and their lengths sum to the consumed  *)
(* length recorded for the session.                                         *)
C2_WindowsHoldOldestSamples ==
    m_readInProgress =>
        \A c \in Chans :
            /\ windowLen(indexes[c]) = m_readSamples[c]
            /\ m_readSamples[c] <= Len(pending[c])
            /\ windowSamples(m_buffer[c], indexes[c])
                   = SubSeq(pending[c], 1, m_readSamples[c])
            /\ Cardinality(windowPositions(indexes[c])) = windowLen(indexes[c])

\* a session whose windows wrap around the end of the ring
C2_Witness ==
    /\ m_readInProgress
    /\ \E c \in Chans : indexes[c].size1 > 0 /\ indexes[c].size2 > 0

(* C3: a writeChannel step stores nothing at a ring position holding a      *)
(* sample not yet released by stopRead, and stores min(nSamples, free)      *)
(* samples: the excess is dropped.                                          *)
C3_NoOverwrite ==
    [][lastOp'.op = "writeChannel" =>
        LET c == lastOp'.chan
            stored == {p \in 0..(m_maxSize - 1) : m_buffer'[c][p] # m_buffer[c][p]}
        IN  /\ stored \cap unreleased(m_fifos[c]) = {}
            /\ Cardinality(stored) = Min(lastOp'.n, getFreeSpace(m_fifos[c]))
            /\ Len(pending'[c]) = Len(pending[c]) + Cardinality(stored)]_vars

\* an overflowing write made while the channel's open session has a window
C3_Witness ==
    /\ lastOp.op = "writeChannel"
    /\ lastOp.open
    /\ m_readSamples[lastOp.chan] > 0
    /\ lastOp.stored > 0
    /\ lastOp.stored < lastOp.n

(* C4: writing N samples (0 < N <= capacity) with timestamp T to an empty   *)
(* channel whose write position is block-aligned and then calling startRead *)
(* without a cap yields windows of total length N and timestamp T.          *)
C4_RoundTrip ==
    [][(lastOp.op = "writeChannel" /\ lastOp.fresh
        /\ lastOp.n > 0 /\ lastOp.n <= m_maxSize
        /\ lastOp'.op = "startRead" /\ lastOp'.ret /\ lastOp'.n = 0) =>
            /\ windowLen(indexes'[lastOp.chan]) = lastOp.n
            /\ timestamps'[lastOp.chan] = lastOp.ts]_vars

(* C5: reconciled timestamps of successive successful startRead calls on a  *)
(* channel are non-decreasing, and a session whose window contains no block *)
(* boundary gets the previous session's timestamp plus its consumed length. *)
C5_Monotonic ==
    [][(lastOp'.op = "startRead" /\ lastOp'.ret) =>
        \A c \in Chans :
            hadSession[c] =>
                /\ timestamps'[c] >= timestamps[c]
                /\ ~touchesBlock(indexes'[c]) =>
                       timestamps'[c] = timestamps[c] + windowLen(indexes[c])]_vars

(* C6: a startRead call made while a session is open returns false and      *)
(* changes nothing of the queue nor of the caller's arrays.                 *)
C6_StartReadReentrancy ==
    [][(lastOp'.op = "startRead" /\ m_readInProgress) =>
        /\ lastOp'.ret = FALSE
        /\ UNCHANGED <<qvars, outvars>>]_vars

\* a refused startRead while the open session has samples recorded
C6_Witness ==
    /\ lastOp.op = "startRead" /\ lastOp.open /\ ~lastOp.ret
    /\ m_readInProgress
    /\ \E c \in Chans : m_readSamples[c] > 0 /\ getNumReady(m_fifos[c]) > m_readSamples[c]

(* C7: setChannels and resize called while a session is open change nothing *)
(* of the queue, for any channel.                                           *)
C7_ReconfigureRefused ==
    [][(lastOp'.op \in {"setChannels", "resize"} /\ m_readInProgress) =>
        UNCHANGED qvars]_vars

\* a refused call that asked for a different configuration of a queue holding data
C7_Witness ==
    /\ lastOp.open /\ m_readInProgress
    /\ \/ lastOp.op = "setChannels" /\ lastOp.n # m_numChans
       \/ lastOp.op = "resize" /\ lastOp.n # m_numBlocks
    /\ \E c \in Chans : m_readSamples[c] > 0

(* C9: a writeChannel call of capacity + K samples (K > 0) on an empty       *)
(* channel stores at most capacity samples and leaves 0 writable samples.   *)
C9_Overflow ==
    [][(lastOp'.op = "writeChannel"
        /\ getNumReady(m_fifos[lastOp'.chan]) = 0
        /\ lastOp'.n > m_maxSize) =>
        LET c == lastOp'.chan
        IN  /\ Len(pending'[c]) - Len(pending[c]) <= m_maxSize
            /\ getNumReady(m_fifos'[c]) = Len(pending'[c]) - Len(pending[c])
            /\ getFreeSpace(m_fifos'[c]) = 0
            /\ windowLen(prepareToWrite(m_fifos'[c], 1)) = 0]_vars

\* an overflowing write on an empty channel
C9_Witness ==
    /\ lastOp.op = "writeChannel"
    /\ lastOp.n > m_maxSize
    /\ Len(pending[lastOp.chan]) = lastOp.stored
    /\ lastOp.stored > 0

(* C10: stopRead with a session open commits, for every channel, exactly    *)
(* the recorded length (ready count drops, writable space grows by it),    *)
(* resets the recorded length and returns to Idle; startRead then succeeds. *)
C10_StopReadCommits ==
    [][/\ (lastOp'.op = "stopRead" /\ m_readInProgress) =>
            /\ ~m_readInProgress'
            /\ \A c \in Chans :
                /\ getNumReady(m_fifos'[c]) = getNumReady(m_fifos[c]) - m_readSamples[c]
                /\ getFreeSpace(m_fifos'[c]) = getFreeSpace(m_fifos[c]) + m_readSamples[c]
                /\ m_fifos'[c].validEnd = m_fifos[c].validEnd
                /\ m_readSamples'[c] = 0
       /\ (lastOp'.op = "startRead" /\ lastOp.op = "stopRead") =>
            /\ lastOp'.ret
            /\ m_readInProgress']_vars

\* a stopRead that committed a recorded length on a channel written during the session
C10_Witness ==
    /\ lastOp.op = "stopRead" /\ lastOp.open /\ ~m_readInProgress
    /\ \E c \in Chans :
        /\ windowLen(indexes[c]) > 0
        /\ wroteDuring[c]
        /\ getNumReady(m_fifos[c]) > 0

(* C8: with setChannels/resize interleaved step by step with startRead and *)
(* stopRead, no step of a reconfiguration replaces or resets channel state  *)
(* while a read session is open.                                            *)
ReconfigureSteps == {"setChannels:clear", "setChannels:add", "setChannels:setSize",
                     "resize:size", "resize:chan", "resize:setSize"}

C8_NoReconfigureDuringRead ==
    lastOp.op \in ReconfigureSteps => ~lastOp.open

----------------------------------------------------------------------------
(* C11: a successful startRead(cap) consumes, for every channel, exactly    *)
(* min(ready, cap) samples when cap > 0 and exactly the ready count when    *)
(* cap is 0; the two windows together have that length, never more than     *)
(* what was ready, and that length is the one recorded for the later        *)
(* commit.                                                                  *)
C11_ConsumedLength ==
    [][(lastOp'.op = "startRead" /\ lastOp'.ret) =>
          \A c \in Chans :
              LET ready == getNumReady(m_fifos[c])
                  nMax == lastOp'.n
              IN  /\ windowLen(indexes'[c])
                         = (IF nMax > 0 THEN Min(ready, nMax) ELSE ready)
                  /\ windowLen(indexes'[c]) <= ready
                  /\ m_readSamples'[c] = windowLen(indexes'[c])]_vars

\* a capped session that left ready samples outside its windows
C11_Witness ==
    /\ startReadDone
    /\ lastOp.n > 0
    /\ \E c \in Chans :
          /\ windowLen(indexes[c]) = lastOp.n
          /\ getNumReady(m_fifos[c]) > lastOp.n

(* C12: after setChannels(c) with no session open the channel count is c    *)
(* and every channel is fresh whatever was stored before: nothing ready,    *)
(* recorded consumed length 0, last-read timestamp 0, a ring of capacity    *)
(* maxSize and a timestamp table of numBlocks entries.                      *)
C12_SetChannelsFresh ==
    (lastOp.op = "setChannels" /\ lastOp.ret) =>
        /\ m_numChans = lastOp.n
        /\ DOMAIN m_fifos = 0..(lastOp.n - 1)
        /\ DOMAIN m_readSamples = 0..(lastOp.n - 1)
        /\ DOMAIN m_timestamps = 0..(lastOp.n - 1)
        /\ DOMAIN m_lastReadTimestamps = 0..(lastOp.n - 1)
        /\ \A c \in 0..(lastOp.n - 1) :
              /\ getNumReady(m_fifos[c]) = 0
              /\ m_readSamples[c] = 0
              /\ m_lastReadTimestamps[c] = 0
              /\ m_fifos[c].bufferSize = m_maxSize
              /\ Len(m_timestamps[c]) = m_numBlocks

\* setChannels called on a queue whose store still holds written samples
C12_Witness ==
    /\ lastOp.op = "setChannels" /\ lastOp.ret
    /\ lastOp.n > 0
    /\ \E c \in Chans : nextTs[c] > StartTs /\ \E p \in DOMAIN m_buffer[c] : m_buffer[c][p] # NoSample

(* C13: stopRead called while no session is open changes nothing: the state *)
(* stays Idle and the cursors, ready counts, recorded lengths, timestamp    *)
(* tables and last-read timestamps are all unchanged.                       *)
C13_StopReadIdleNoOp ==
    [][(lastOp'.op = "stopRead" /\ ~m_readInProgress) =>
          /\ ~m_readInProgress'
          /\ UNCHANGED <<m_fifos, m_readSamples, m_timestamps, m_lastReadTimestamps,
                         m_buffer, m_numChans, m_numBlocks, m_maxSize>>]_vars

\* stopRead refused while samples are waiting in the ring
C13_Witness ==
    /\ lastOp.op = "stopRead" /\ ~lastOp.ret
    /\ ~m_readInProgress
    /\ \E c \in Chans : getNumReady(m_fifos[c]) > 0

----------------------------------------------------------------------------
(* Observations of one writeChannel step *)

writeStep == lastOp'.op = "writeChannel"

\* the windows the step was given by prepareToWrite
writeWindows == prepareToWrite(m_fifos[lastOp'.chan], lastOp'.n)

\* ring position p lies inside one of the windows
covered(w, p) ==
    \/ (p >= w.index1 /\ p < w.index1 + w.size1)
    \/ (p >= w.index2 /\ p < w.index2 + w.size2)

\* the table slot of the block that contains ring position p
slotOf(p) == (p \div BlockSize) % m_numBlocks

(* C14: after writeChannel, for every block-aligned ring position p covered *)
(* by a window of that write, slot (p / blockSize) mod numBlocks of the     *)
(* channel's table holds the timestamp of the sample written at p, for      *)
(* windows that cover several block boundaries as well as one.              *)
C14_BlockStartsStamped ==
    [][writeStep =>
          LET c == lastOp'.chan
          IN  \A p \in windowPositions(writeWindows) :
                  (p % BlockSize = 0) =>
                      /\ slotOf(p) < Len(m_timestamps'[c])
                      /\ getUnchecked(m_timestamps'[c], slotOf(p)) = m_buffer'[c][p]]_vars

(* C15: when a write window starts at a ring index that is not              *)
(* block-aligned (index mod blockSize = m > 0) and reaches the next block   *)
(* boundary, the slot of the block starting at that boundary is stamped     *)
(* with the write timestamp plus (blockSize - m); when the boundary is the  *)
(* ring's wrap point the stamp lands in slot 0 and never in a slot index    *)
(* >= numBlocks.                                                            *)
C15_MisalignedStart ==
    [][writeStep =>
          LET c == lastOp'.chan
              w == writeWindows
              m == w.index1 % BlockSize
              boundary == w.index1 + (BlockSize - m)
              reached == IF boundary < m_maxSize
                         THEN boundary < w.index1 + w.size1
                         ELSE w.size2 > 0
          IN  (w.size1 > 0 /\ m > 0 /\ reached) =>
                  /\ Len(m_timestamps'[c]) = m_numBlocks
                  /\ getUnchecked(m_timestamps'[c], slotOf(boundary))
                         = lastOp'.ts + (BlockSize - m)]_vars

\* the last ring position a write stored a sample at
lastWritten(w) ==
    IF w.size2 > 0 THEN w.index2 + w.size2 - 1 ELSE w.index1 + w.size1 - 1

(* C16, as stated: writeChannel does not stamp the slot of a block that its *)
(* window covers only partially at the trailing edge; the write leaves that *)
(* slot unchanged.                                                          *)
C16_TrailingBlockUnstamped ==
    [][writeStep =>
          LET c == lastOp'.chan
              w == writeWindows
              e == lastWritten(w)
          IN  (w.size1 > 0 /\ (e + 1) % BlockSize # 0) =>
                  getUnchecked(m_timestamps'[c], slotOf(e))
                      = getUnchecked(m_timestamps[c], slotOf(e))]_vars

(* C16, amended: writeChannel leaves unchanged the slot of every block      *)
(* whose first ring position is not inside one of its windows, such as the  *)
(* block in which a misaligned window starts; a block covered only          *)
(* partially at the trailing edge whose first position is inside the window *)
(* is among the blocks that write may stamp.                                *)
C16_UncoveredStartsUnstamped ==
    [][writeStep =>
          LET c == lastOp'.chan
              w == writeWindows
          IN  /\ Len(m_timestamps'[c]) = Len(m_timestamps[c])
              /\ \A b \in 0..(m_numBlocks - 1) :
                    ~covered(w, b * BlockSize) =>
                        getUnchecked(m_timestamps'[c], b)
                            = getUnchecked(m_timestamps[c], b)]_vars

\* a write that started inside a block stamped by an earlier write
C16_Witness ==
    /\ lastOp.op = "writeChannel"
    /\ lastOp.stored > 0
    /\ LET f == m_fifos[lastOp.chan]
           start == (f.validEnd + f.bufferSize - lastOp.stored) % f.bufferSize
       IN  /\ start % BlockSize # 0
           /\ getUnchecked(m_timestamps[lastOp.chan], slotOf(start)) # 0

----------------------------------------------------------------------------
\* all channels share one capacity, blockSize x numBlocks
sharedSize ==
    /\ m_maxSize = BlockSize * m_numBlocks
    /\ \A c \in Chans :
          /\ m_fifos[c].bufferSize = m_maxSize
          /\ DOMAIN m_buffer[c] = 0..(m_maxSize - 1)

(* C17: after resize(n) with no session open, numBlocks is n, maxSize is    *)
(* blockSize x n, the channel count is unchanged, and every channel has     *)
(* nothing ready, a ring of capacity maxSize, a timestamp table of n        *)
(* entries and recorded consumed length 0; and in every reachable state all *)
(* channels share the same maxSize = blockSize x numBlocks.                 *)
C17_ResizeResets ==
    /\ []sharedSize
    /\ [][(lastOp'.op = "resize" /\ ~m_readInProgress) =>
             /\ m_numBlocks' = lastOp'.n
             /\ m_maxSize' = BlockSize * lastOp'.n
             /\ m_numChans' = m_numChans
             /\ DOMAIN m_fifos' = DOMAIN m_fifos
             /\ \A c \in DOMAIN m_fifos' :
                   /\ getNumReady(m_fifos'[c]) = 0
                   /\ m_fifos'[c].bufferSize = m_maxSize'
                   /\ Len(m_timestamps'[c]) = lastOp'.n
                   /\ m_readSamples'[c] = 0]_vars

\* resize changed the capacity of a queue that had accepted samples
C17_Witness ==
    /\ lastOp.op = "resize" /\ lastOp.ret
    /\ m_numBlocks # InitBlocks
    /\ \E c \in Chans : nextTs[c] > StartTs

\* the recorded consumed lengths agree with the session flag
recordedLengths ==
    \A c \in Chans :
        IF m_readInProgress
        THEN m_readSamples[c] <= getNumReady(m_fifos[c])
        ELSE m_readSamples[c] = 0

(* C18: while no session is open every recorded consumed length is 0; while *)
(* one is open each recorded length is at most the channel's current ready  *)
(* count; and writeChannel never changes a recorded length or the           *)
(* open-session flag.                                                       *)
C18_RecordedLengths ==
    /\ []recordedLengths
    /\ [][writeStep => UNCHANGED <<m_readSamples, m_readInProgress>>]_vars

\* a write accepted while a session holds a non-empty window
C18_Witness ==
    /\ lastOp.op = "writeChannel" /\ lastOp.stored > 0
    /\ m_readInProgress
    /\ m_readSamples[lastOp.chan] > 0

----------------------------------------------------------------------------
\* channel c has windows handed out by startRead and not yet committed
windowsHeld(c) ==
    /\ m_readInProgress
    /\ c \in DOMAIN indexes /\ c \in DOMAIN snap
    /\ m_readSamples[c] > 0

\* the windows hold, in order, samples whose copy was complete when startRead
\* read the ready count
windowsHoldCopied ==
    \A c \in Chans :
        windowsHeld(c) =>
            /\ windowLen(indexes[c]) = m_readSamples[c]
            /\ windowLen(indexes[c]) <= Len(snap[c])
            /\ windowSamples(m_buffer[c], indexes[c])
                   = SubSeq(snap[c], 1, windowLen(indexes[c]))

\* a writer step neither stores into a held window nor moves the write cursor
\* over one
writerKeepsOut ==
    (wpc' # wpc) =>
        \A c \in Chans :
            windowsHeld(c) =>
                /\ \A p \in windowPositions(indexes[c]) : m_buffer'[c][p] = m_buffer[c][p]
                /\ windowPositions(indexes[c]) \subseteq unreleased(m_fifos'[c])
                /\ (wpc = "commit" /\ wargs.chan = c) =>
                       /\ windowPositions(ww) \cap windowPositions(indexes[c]) = {}
                       /\ getNumReady(m_fifos'[c])
                              = getNumReady(m_fifos[c]) + windowLen(ww)

(* C19: with one writer running writeChannel as steps (reserve the window,  *)
(* copy the samples, stamp the timestamps, commit the write cursor)         *)
(* interleaved with one reader's startRead/stopRead on the same channel,    *)
(* every ring position inside startRead's windows holds a sample whose copy *)
(* was complete before startRead read the ready count, and the writer never *)
(* stores a sample or commits over a position inside the windows of the     *)
(* open session.                                                            *)
C19_WriterReaderDisjoint ==
    /\ []windowsHoldCopied
    /\ [][writerKeepsOut]_vars

\* the writer is about to commit a write that was cut short by the samples a
\* session still holds on the same channel
C19_Witness ==
    /\ wpc = "commit"
    /\ windowsHeld(wargs.chan)
    /\ windowLen(ww) > 0
    /\ windowLen(ww) < wargs.n
    /\ Len(pending[wargs.chan]) > Len(snap[wargs.chan])

----------------------------------------------------------------------------
(* A reader that keeps calling startRead and stopRead, beside a writer that *)
(* may stop at any time.  The operations run to completion; the queue is    *)
(* configured before the first sample is written and not afterwards.        *)

Range(q) == {q[k] : k \in DOMAIN q}

deliveredOf(c) == IF c \in DOMAIN delivered THEN delivered[c] ELSE << >>

\* startRead, with the samples in the windows it returns added to the history
liveStartRead(nMax) ==
    /\ startRead(nMax)
    /\ delivered' =
           IF startReadRefused(m_readInProgress)
           THEN delivered
           ELSE [c \in Chans |->
                    deliveredOf(c) \o windowSamples(m_buffer[c],
                                                    readWindow(m_fifos[c], nMax))]
    /\ UNCHANGED ctlvars

liveStopRead ==
    /\ stopRead
    /\ UNCHANGED <<ctlvars, livevars>>

ReaderLive ==
    \/ \E nMax \in 0..MaxCap : liveStartRead(nMax)
    \/ liveStopRead

\* the writer streams into channel 0
WriterLive ==
    \E nSamples \in 1..MaxSamples :
        /\ 0 \in Chans
        /\ streamed(MaxChans - 1) + nSamples <= StreamLen
        /\ writeChannel(0, nSamples, nextTs[0])
        /\ UNCHANGED <<ctlvars, livevars>>

NextLive == ControlSetup \/ WriterLive \/ ReaderLive

\* the reader's loop never stops calling: weak fairness on both calls
SpecLive ==
    /\ Init
    /\ [][NextLive]_vars
    /\ WF_vars(\E nMax \in 0..MaxCap : liveStartRead(nMax))
    /\ WF_vars(liveStopRead)

\* no sample was returned by two sessions
returnedOnce ==
    \A c \in DOMAIN delivered :
        Cardinality(Range(delivered[c])) = Len(delivered[c])

\* sample s of channel c's stream was accepted and is not yet released
accepting(c, s) == c \in DOMAIN pending /\ s \in Range(pending[c])

returned(c, s) == s \in Range(deliveredOf(c))

StreamSamples == StartTs..(StartTs + StreamLen - 1)

\* a sample leaves the ring only after a session has returned it
releasedAfterReturn ==
    \A c \in Streams :
        \A s \in StreamSamples :
            (accepting(c, s) /\ ~accepting(c, s)') => returned(c, s)

\* every sample accepted so far has been returned
allReturned ==
    \A c \in Streams :
        \A s \in StreamSamples : accepting(c, s) => returned(c, s)

drained == \A c \in Chans : getNumReady(m_fifos[c]) = 0

(* C20: if the reader keeps calling startRead and then stopRead (weak       *)
(* fairness on both, any cap >= 0) and no reconfiguration occurs, every     *)
(* sample accepted by writeChannel is eventually returned inside the        *)
(* windows of exactly one read session, and once the writer has stopped     *)
(* every channel's ready count eventually becomes 0 and stays 0.  A sample  *)
(* is eventually returned because it stays accepted until it has been      *)
(* returned, and again and again all accepted samples have been returned.   *)
C20_EverySampleReturnedOnce ==
    /\ []returnedOnce
    /\ [][releasedAfterReturn]_vars
    /\ []<>allReturned
    /\ <>[]drained

\* every sample of a stream of three or more has been returned and released
C20_Witness ==
    /\ lastOp.op = "stopRead" /\ lastOp.ret
    /\ \E c \in Chans :
          /\ Len(deliveredOf(c)) = nextTs[c] - StartTs
          /\ Len(deliveredOf(c)) >= 3
          /\ pending[c] = << >>
          /\ getNumReady(m_fifos[c]) = 0

====
